---- MODULE Spec2Model ----
(***************************************************************************)
(* A model of the goban crate: the Goban of src/src/pieces/goban.rs (chain *)
(* pool, board map, next_stone linkage, Zobrist hash) and the Game of      *)
(* src/src/rules/game.rs that drives it.                                   *)
(*                                                                         *)
(* The goban is one record value, so that the methods of Goban are         *)
(* operators from a goban to a goban and compose as the code composes      *)
(* them.  Chain ids are pool indices, 0-based as in the code.  The board   *)
(* map and next_stone are modelled over the cells 0 .. height*width-1, the *)
(* only ones an in-bounds placement reads or writes.                       *)
(***************************************************************************)
EXTENDS Integers, Sequences, FiniteSets, TLC

VARIABLES goban, game, ret, placed, ops

vars == <<goban, game, ret, placed, ops>>

(* Bounds of the model. *)
MaxCells == 6
MaxOps == 4
MaxTryCells == 4
MaxTryOps == 4
MaxLongOps == 290
MaxWideBefore == 120
MaxWideAfter == 4
MaxEyeStones == 5
MaxBigOps == 2
MaxBigCells == 12

Black == "Black"
White == "White"
Colors == {Black, White}

(* Option<u16>::None in the board map, Option<Coord>::None for the ko point. *)
NoChain == -1
NoCoord == <<>>

(* Color::not *)
Opposite(color) == IF color = Black THEN White ELSE Black

(* ---------------------------------------------------------------------- *)
(* pieces::util::coord                                                     *)
(* ---------------------------------------------------------------------- *)
two_to_1dim(size, coord) == coord[1] * size[2] + coord[2]

one_to_2dim(size, idx) == <<idx \div size[2], idx % size[2]>>

is_coord_valid(size, coord) == coord[1] < size[1] /\ coord[2] < size[2]

(* The coordinates are 8-bit (Nat): the neighbour of row 0 wraps round to  *)
(* 255 and is_coord_valid discards it.                                     *)
neighbor_coords(coord) ==
    << <<(coord[1] + 1) % (2^8), coord[2]>>,
       <<(coord[1] - 1) % (2^8), coord[2]>>,
       <<coord[1], (coord[2] + 1) % (2^8)>>,
       <<coord[1], (coord[2] - 1) % (2^8)>> >>

(* ---------------------------------------------------------------------- *)
(* pieces::zobrist: one 64-bit value per (cell, colour).  The table is     *)
(* modelled by linearly independent values, one bit each.                  *)
(* ---------------------------------------------------------------------- *)
index_zobrist(idx, color) == 2 ^ (2 * idx + (IF color = Black THEN 0 ELSE 1))

RECURSIVE Xor(_, _)
Xor(a, b) ==
    IF a = 0 THEN b
    ELSE IF b = 0 THEN a
    ELSE (((a % 2) + (b % 2)) % 2) + (2 * Xor(a \div 2, b \div 2))

(* ---------------------------------------------------------------------- *)
(* pieces::chain::Chain                                                    *)
(* ---------------------------------------------------------------------- *)
new_with_liberties(color, origin, libs) ==
    [color |-> color, num_stones |-> 1, origin |-> origin, last |-> origin,
     liberties |-> libs, used |-> TRUE]

remove_liberty(chain, idx) == [chain EXCEPT !.liberties = @ \ {idx}]

add_liberty(chain, idx) == [chain EXCEPT !.liberties = @ \cup {idx}]

union_liberties_slice(chain, libs) ==
    [chain EXCEPT !.liberties = @ \cup {libs[k] : k \in 1..Len(libs)}]

number_of_liberties(chain) == Cardinality(chain.liberties)

is_dead(chain) == number_of_liberties(chain) = 0

is_atari(chain) == number_of_liberties(chain) = 1

(* ---------------------------------------------------------------------- *)
(* Goban                                                                   *)
(* ---------------------------------------------------------------------- *)
Cells(size) == 0 .. (size[1] * size[2] - 1)

NumChains(g) == Cardinality(DOMAIN g.chains)

Contains(seq, x) == \E k \in 1..Len(seq) : seq[k] = x

(* Goban::new *)
Goban_new(size) ==
    [size |-> size,
     zobrist_hash |-> 0,
     board |-> [i \in Cells(size) |-> NoChain],
     next_stone |-> [i \in Cells(size) |-> 0],
     chains |-> <<>>]

(* Goban::neighbors_coords *)
neighbors_coords(g, coord) ==
    SelectSeq(neighbor_coords(coord), LAMBDA p : is_coord_valid(g.size, p))

(* Goban::neighbors_idx *)
neighbors_idx(g, idx) ==
    LET nc == SelectSeq(neighbors_coords(g, one_to_2dim(g.size, idx)),
                        LAMBDA p : is_coord_valid(g.size, p))
    IN  [k \in 1..Len(nc) |-> two_to_1dim(g.size, nc[k])]

(* CircularRenIter: from origin along next_stone until origin comes round  *)
(* again.  fuel stops the walk of a linkage that never closes.             *)
RECURSIVE CircularRenIter(_, _, _, _)
CircularRenIter(next_stone, origin, cur, fuel) ==
    IF fuel = 0 THEN <<>>
    ELSE IF next_stone[cur] = origin THEN <<cur>>
    ELSE <<cur>> \o CircularRenIter(next_stone, origin, next_stone[cur], fuel - 1)

(* the macro iter_stones! *)
iter_stones(g, ren_idx) ==
    CircularRenIter(g.next_stone, g.chains[ren_idx].origin,
                    g.chains[ren_idx].origin, Cardinality(DOMAIN g.board) + 1)

(* Goban::put_chain_in_bin *)
put_chain_in_bin(g, ren_idx) ==
    [g EXCEPT !.chains[ren_idx].used = FALSE]

(* update_chain_indexes_in_board that rewrites the origin's cell alone *)
update_chain_indexes_in_board_origin_only(g, ren_idx) ==
    [g EXCEPT !.board[g.chains[ren_idx].origin] = ren_idx % (2^16)]

(* Goban::update_chain_indexes_in_board, lines 492-496: the board map      *)
(* holds 16-bit ids, `ren_idx as u16` keeps the low 16 bits of the index   *)
RECURSIVE write_chain_index(_, _, _, _)
write_chain_index(board, stones, k, ren_idx) ==
    IF k > Len(stones) THEN board
    ELSE write_chain_index([board EXCEPT ![stones[k]] = ren_idx % (2^16)],
                           stones, k + 1, ren_idx)

(* Goban::update_chain_indexes_in_board *)
update_chain_indexes_in_board(g, ren_idx) ==
    [g EXCEPT !.board = write_chain_index(@, iter_stones(g, ren_idx), 1, ren_idx)]

(* Goban::create_chain: the goban with the new chain, whose id is the last *)
(* index of the pool.                                                      *)
create_chain(g, origin, color, liberties) ==
    LET chain_to_place ==
            new_with_liberties(color, origin,
                               {liberties[k] : k \in 1..Len(liberties)})
        n == NumChains(g)
        g1 == [g EXCEPT !.next_stone[origin] = origin,
                        !.chains = @ @@ (n :> chain_to_place)]
    IN  update_chain_indexes_in_board(g1, n)

(* add_stone_to_chain that does not link the last stone to a new origin *)
add_stone_to_chain_unlinked(g, chain_idx, stone) ==
    LET chain == g.chains[chain_idx]
    IN  IF stone < chain.origin
        THEN [g EXCEPT !.next_stone[stone] = chain.origin,
                       !.chains[chain_idx].origin = stone,
                       !.chains[chain_idx].num_stones = @ + 1]
        ELSE [g EXCEPT !.next_stone[chain.last] = stone,
                       !.next_stone[stone] = chain.origin,
                       !.chains[chain_idx].last = stone,
                       !.chains[chain_idx].num_stones = @ + 1]

(* Goban::add_stone_to_chain *)
add_stone_to_chain(g, chain_idx, stone) ==
    LET chain == g.chains[chain_idx]
    IN  IF stone < chain.origin
        THEN [g EXCEPT !.next_stone[stone] = chain.origin,
                       !.next_stone[chain.last] = stone,
                       !.chains[chain_idx].origin = stone,
                       !.chains[chain_idx].num_stones = @ + 1]
        ELSE [g EXCEPT !.next_stone[chain.last] = stone,
                       !.next_stone[stone] = chain.origin,
                       !.chains[chain_idx].last = stone,
                       !.chains[chain_idx].num_stones = @ + 1]

(* merge_strings that keeps the origin of chain1 whatever that of chain2 *)
merge_strings_keeps_origin(g, chain1_idx, chain2_idx) ==
    LET chain1 == g.chains[chain1_idx]
        chain2 == g.chains[chain2_idx]
        merged == [chain1 EXCEPT
                      !.liberties = chain1.liberties \cup chain2.liberties,
                      !.last = chain2.last,
                      !.num_stones = chain1.num_stones + chain2.num_stones]
        g1 == [g EXCEPT !.chains[chain1_idx] = merged,
                        !.next_stone[chain1.last] = g.next_stone[chain2.last],
                        !.next_stone[chain2.last] = g.next_stone[chain1.last]]
    IN  put_chain_in_bin(update_chain_indexes_in_board(g1, chain1_idx), chain2_idx)

(* merge_strings that leaves the absorbed chain in use *)
merge_strings_not_retired(g, chain1_idx, chain2_idx) ==
    LET chain1 == g.chains[chain1_idx]
        chain2 == g.chains[chain2_idx]
        merged == [chain1 EXCEPT
                      !.liberties = chain1.liberties \cup chain2.liberties,
                      !.origin = IF chain1.origin > chain2.origin
                                 THEN chain2.origin ELSE chain1.origin,
                      !.last = IF chain1.origin > chain2.origin
                               THEN chain1.last ELSE chain2.last,
                      !.num_stones = chain1.num_stones + chain2.num_stones]
        g1 == [g EXCEPT !.chains[chain1_idx] = merged,
                        !.next_stone[chain1.last] = g.next_stone[chain2.last],
                        !.next_stone[chain2.last] = g.next_stone[chain1.last]]
    IN  update_chain_indexes_in_board(g1, chain1_idx)

(* Goban::merge_strings: chain1 absorbs chain2. *)
merge_strings(g, chain1_idx, chain2_idx) ==
    LET chain1 == g.chains[chain1_idx]
        chain2 == g.chains[chain2_idx]
        merged == [chain1 EXCEPT
                      !.liberties = chain1.liberties \cup chain2.liberties,
                      !.origin = IF chain1.origin > chain2.origin
                                 THEN chain2.origin ELSE chain1.origin,
                      !.last = IF chain1.origin > chain2.origin
                               THEN chain1.last ELSE chain2.last,
                      !.num_stones = chain1.num_stones + chain2.num_stones]
        g1 == [g EXCEPT !.chains[chain1_idx] = merged,
                        !.next_stone[chain1.last] = g.next_stone[chain2.last],
                        !.next_stone[chain2.last] = g.next_stone[chain1.last]]
    IN  put_chain_in_bin(update_chain_indexes_in_board(g1, chain1_idx), chain2_idx)

(* classify_neighbors that lists a chain of the other colour once per      *)
(* neighbouring stone                                                      *)
RECURSIVE classify_neighbors_no_dedup(_, _, _, _, _)
classify_neighbors_no_dedup(g, nbrs, k, color, acc) ==
    IF k > Len(nbrs) THEN acc
    ELSE LET neighbor_idx == nbrs[k]
             adj_ren_index == g.board[neighbor_idx]
         IN  IF adj_ren_index = NoChain
             THEN classify_neighbors_no_dedup(g, nbrs, k + 1, color,
                      [acc EXCEPT !.liberties = Append(@, neighbor_idx)])
             ELSE IF g.chains[adj_ren_index].color = color
             THEN classify_neighbors_no_dedup(g, nbrs, k + 1, color,
                      IF Contains(acc.same, adj_ren_index) THEN acc
                      ELSE [acc EXCEPT !.same = Append(@, adj_ren_index)])
             ELSE classify_neighbors_no_dedup(g, nbrs, k + 1, color,
                      [acc EXCEPT !.opposite = Append(@, adj_ren_index)])

(* Goban::push_wth_feedback, lines 144-160: the neighbours of the pushed   *)
(* cell sorted into the adjacent chains of the stone's colour, those of    *)
(* the other colour (each chain once) and the empty neighbours.            *)
RECURSIVE classify_neighbors(_, _, _, _, _)
classify_neighbors(g, nbrs, k, color, acc) ==
    IF k > Len(nbrs) THEN acc
    ELSE LET neighbor_idx == nbrs[k]
             adj_ren_index == g.board[neighbor_idx]
         IN  IF adj_ren_index = NoChain
             THEN classify_neighbors(g, nbrs, k + 1, color,
                      [acc EXCEPT !.liberties = Append(@, neighbor_idx)])
             ELSE IF g.chains[adj_ren_index].color = color
             THEN classify_neighbors(g, nbrs, k + 1, color,
                      IF Contains(acc.same, adj_ren_index) THEN acc
                      ELSE [acc EXCEPT !.same = Append(@, adj_ren_index)])
             ELSE classify_neighbors(g, nbrs, k + 1, color,
                      IF Contains(acc.opposite, adj_ren_index) THEN acc
                      ELSE [acc EXCEPT !.opposite = Append(@, adj_ren_index)])

(* Goban::push_wth_feedback, lines 161-171: the pushed cell stops being a  *)
(* liberty of the adjacent chains of the other colour; those left without  *)
(* a liberty are reported dead.  acc is [g, dead].                         *)
RECURSIVE take_opposite_liberty(_, _, _, _)
take_opposite_liberty(acc, opposite, k, pushed_stone_idx) ==
    IF k > Len(opposite) THEN acc
    ELSE LET ren_idx == opposite[k]
             ren == remove_liberty(acc.g.chains[ren_idx], pushed_stone_idx)
         IN  IF acc.g.chains[ren_idx].used
             THEN take_opposite_liberty(
                      [g |-> [acc.g EXCEPT !.chains[ren_idx] = ren],
                       dead |-> IF is_dead(ren) THEN Append(acc.dead, ren_idx)
                                ELSE acc.dead],
                      opposite, k + 1, pushed_stone_idx)
             ELSE take_opposite_liberty(acc, opposite, k + 1, pushed_stone_idx)

(* merge_adjacent that merges the first adjacent chain alone *)
merge_adjacent_first_only(acc, same, k) ==
    LET adj_ren == same[1]
    IN  IF number_of_liberties(acc.g.chains[adj_ren])
               < number_of_liberties(acc.g.chains[acc.to_merge])
        THEN [g |-> merge_strings(acc.g, acc.to_merge, adj_ren),
              to_merge |-> acc.to_merge]
        ELSE [g |-> merge_strings(acc.g, adj_ren, acc.to_merge),
              to_merge |-> adj_ren]

(* Goban::push_wth_feedback, lines 188-197: the fresh chain and the        *)
(* adjacent chains merged one by one, the one with more liberties          *)
(* absorbing the other.  acc is [g, to_merge].                             *)
RECURSIVE merge_adjacent(_, _, _)
merge_adjacent(acc, same, k) ==
    IF k > Len(same) THEN acc
    ELSE LET adj_ren == same[k]
         IN  IF number_of_liberties(acc.g.chains[adj_ren])
                    < number_of_liberties(acc.g.chains[acc.to_merge])
             THEN merge_adjacent(
                      [g |-> merge_strings(acc.g, acc.to_merge, adj_ren),
                       to_merge |-> acc.to_merge], same, k + 1)
             ELSE merge_adjacent(
                      [g |-> merge_strings(acc.g, adj_ren, acc.to_merge),
                       to_merge |-> adj_ren], same, k + 1)

(* place_in_chain that leaves the pushed cell among the liberties of the   *)
(* chain it extends                                                        *)
place_in_chain_stale_liberty(g, pushed_stone_idx, color, same, liberties) ==
    IF Len(same) = 0
    THEN [g |-> create_chain(g, pushed_stone_idx, color, liberties),
          id |-> NumChains(g)]
    ELSE IF Len(same) = 1
    THEN LET only_ren_idx == same[1]
             g1 == [g EXCEPT !.chains[only_ren_idx] =
                        union_liberties_slice(@, liberties)]
             g2 == add_stone_to_chain(g1, only_ren_idx, pushed_stone_idx)
         IN  [g |-> [g2 EXCEPT !.board[pushed_stone_idx] = only_ren_idx % (2^16)],
              id |-> only_ren_idx]
    ELSE LET created == create_chain(g, pushed_stone_idx, color, liberties)
             m == merge_adjacent([g |-> created, to_merge |-> NumChains(g)],
                                 same, 1)
         IN  [g |-> [m.g EXCEPT !.chains[m.to_merge] =
                                    remove_liberty(@, pushed_stone_idx)],
              id |-> m.to_merge]

(* Goban::push_wth_feedback, lines 173-201: the chain of the pushed stone, *)
(* created, extended or merged.  The result is [g, id].                    *)
place_in_chain(g, pushed_stone_idx, color, same, liberties) ==
    IF Len(same) = 0
    THEN [g |-> create_chain(g, pushed_stone_idx, color, liberties),
          id |-> NumChains(g)]
    ELSE IF Len(same) = 1
    THEN LET only_ren_idx == same[1]
             g1 == [g EXCEPT !.chains[only_ren_idx] =
                        union_liberties_slice(
                            remove_liberty(@, pushed_stone_idx), liberties)]
             g2 == add_stone_to_chain(g1, only_ren_idx, pushed_stone_idx)
         IN  [g |-> [g2 EXCEPT !.board[pushed_stone_idx] = only_ren_idx % (2^16)],
              id |-> only_ren_idx]
    ELSE LET created == create_chain(g, pushed_stone_idx, color, liberties)
             m == merge_adjacent([g |-> created, to_merge |-> NumChains(g)],
                                 same, 1)
         IN  [g |-> [m.g EXCEPT !.chains[m.to_merge] =
                                    remove_liberty(@, pushed_stone_idx)],
              id |-> m.to_merge]

(* Goban::push_wth_feedback.  The result is the goban after the call, the  *)
(* pair (dead_ren, updated_ren_index) it returns and, for the record, the  *)
(* local number_of_neighbors_strings.                                      *)
push_wth_feedback(g, point, color) ==
    LET pushed_stone_idx == two_to_1dim(g.size, point)
        adj == classify_neighbors(g, neighbors_idx(g, pushed_stone_idx), 1, color,
                   [same |-> <<>>, opposite |-> <<>>, liberties |-> <<>>])
        o == take_opposite_liberty([g |-> g, dead |-> <<>>], adj.opposite, 1,
                                   pushed_stone_idx)
        c == place_in_chain(o.g, pushed_stone_idx, color, adj.same, adj.liberties)
    IN  [g |-> [c.g EXCEPT !.zobrist_hash =
                    Xor(@, index_zobrist(pushed_stone_idx, color))],
         dead |-> o.dead,
         id |-> c.id,
         number_of_neighbors_strings |-> Len(adj.same)]

(* Goban::get_neighbors_chains_ids_by_board_idx *)
get_neighbors_chains_ids_by_board_idx(g, index) ==
    LET nbrs == neighbors_idx(g, index)
        occupied == SelectSeq(nbrs, LAMBDA i : g.board[i] # NoChain)
    IN  [k \in 1..Len(occupied) |-> g.board[occupied[k]]]

(* Goban::remove_chain, lines 476-478 *)
RECURSIVE add_liberty_to_neighbors(_, _, _, _)
add_liberty_to_neighbors(chains, neighbors, k, point_idx) ==
    IF k > Len(neighbors) THEN chains
    ELSE add_liberty_to_neighbors(
             [chains EXCEPT ![neighbors[k]] = add_liberty(@, point_idx)],
             neighbors, k + 1, point_idx)

(* remove_stone that leaves the stone in the hash *)
remove_stone_keeps_hash(g, ren_to_remove_idx, point_idx, color_of_the_string) ==
    LET neighbors == SelectSeq(get_neighbors_chains_ids_by_board_idx(g, point_idx),
                               LAMBDA n : n # ren_to_remove_idx)
    IN  [g EXCEPT !.chains = add_liberty_to_neighbors(@, neighbors, 1, point_idx),
                  !.board[point_idx] = NoChain]

(* remove_stone that leaves the id of the chain in the board map *)
remove_stone_keeps_cell(g, ren_to_remove_idx, point_idx, color_of_the_string) ==
    LET neighbors == SelectSeq(get_neighbors_chains_ids_by_board_idx(g, point_idx),
                               LAMBDA n : n # ren_to_remove_idx)
    IN  [g EXCEPT !.chains = add_liberty_to_neighbors(@, neighbors, 1, point_idx),
                  !.zobrist_hash =
                      Xor(@, index_zobrist(point_idx, color_of_the_string))]

(* Goban::remove_chain, lines 464-482: one stone of the chain taken off.   *)
(* The neighbouring chains get the cell as a liberty; a debug build adds   *)
(* each of them once and a release build once per neighbouring stone, and  *)
(* setting a bit twice is setting it once.                                 *)
remove_stone(g, ren_to_remove_idx, point_idx, color_of_the_string) ==
    LET neighbors == SelectSeq(get_neighbors_chains_ids_by_board_idx(g, point_idx),
                               LAMBDA n : n # ren_to_remove_idx)
    IN  [g EXCEPT !.chains = add_liberty_to_neighbors(@, neighbors, 1, point_idx),
                  !.zobrist_hash =
                      Xor(@, index_zobrist(point_idx, color_of_the_string)),
                  !.board[point_idx] = NoChain]

RECURSIVE remove_stones(_, _, _, _, _)
remove_stones(g, ren_to_remove_idx, stones, k, color_of_the_string) ==
    IF k > Len(stones) THEN g
    ELSE remove_stones(
             remove_stone(g, ren_to_remove_idx, stones[k], color_of_the_string),
             ren_to_remove_idx, stones, k + 1, color_of_the_string)

(* remove_chain that leaves the slot in use *)
remove_chain_stays_used(g, ren_to_remove_idx) ==
    remove_stones(g, ren_to_remove_idx, iter_stones(g, ren_to_remove_idx), 1,
                  g.chains[ren_to_remove_idx].color)

(* Goban::remove_chain *)
remove_chain(g, ren_to_remove_idx) ==
    put_chain_in_bin(
        remove_stones(g, ren_to_remove_idx, iter_stones(g, ren_to_remove_idx), 1,
                      g.chains[ren_to_remove_idx].color),
        ren_to_remove_idx)

(* remove_dead_rens that gives a ko point whenever a dead chain has one    *)
(* stone, however many chains died                                         *)
RECURSIVE remove_dead_rens_any_single(_, _, _, _)
remove_dead_rens_any_single(acc, color, dead_rens_indices, k) ==
    IF k > Len(dead_rens_indices) THEN acc
    ELSE LET dead_ren_idx == dead_rens_indices[k]
             dead_ren == acc.g.chains[dead_ren_idx]
         IN  remove_dead_rens_any_single(
                 [g |-> remove_chain(acc.g, dead_ren_idx),
                  stones_removed |->
                      IF color = White
                      THEN <<acc.stones_removed[1],
                             acc.stones_removed[2] + dead_ren.num_stones>>
                      ELSE <<acc.stones_removed[1] + dead_ren.num_stones,
                             acc.stones_removed[2]>>,
                  ko_point |->
                      IF dead_ren.num_stones = 1
                      THEN one_to_2dim(acc.g.size, dead_ren.origin)
                      ELSE acc.ko_point],
                 color, dead_rens_indices, k + 1)

(* remove_dead_rens that counts the stones for the colour that lost them   *)
RECURSIVE remove_dead_rens_credits_loser(_, _, _, _)
remove_dead_rens_credits_loser(acc, color, dead_rens_indices, k) ==
    IF k > Len(dead_rens_indices) THEN acc
    ELSE LET dead_ren_idx == dead_rens_indices[k]
             dead_ren == acc.g.chains[dead_ren_idx]
             only_one_ren_removed == Len(dead_rens_indices) = 1
         IN  remove_dead_rens_credits_loser(
                 [g |-> remove_chain(acc.g, dead_ren_idx),
                  stones_removed |->
                      IF color = Black
                      THEN <<acc.stones_removed[1],
                             acc.stones_removed[2] + dead_ren.num_stones>>
                      ELSE <<acc.stones_removed[1] + dead_ren.num_stones,
                             acc.stones_removed[2]>>,
                  ko_point |->
                      IF dead_ren.num_stones = 1 /\ only_one_ren_removed
                      THEN one_to_2dim(acc.g.size, dead_ren.origin)
                      ELSE acc.ko_point],
                 color, dead_rens_indices, k + 1)

(* Goban::remove_captured_stones_aux, lines 219-235: the dead chains taken *)
(* off one by one.  acc is [g, stones_removed, ko_point].                  *)
RECURSIVE remove_dead_rens(_, _, _, _)
remove_dead_rens(acc, color, dead_rens_indices, k) ==
    IF k > Len(dead_rens_indices) THEN acc
    ELSE LET dead_ren_idx == dead_rens_indices[k]
             dead_ren == acc.g.chains[dead_ren_idx]
             only_one_ren_removed == Len(dead_rens_indices) = 1
         IN  remove_dead_rens(
                 [g |-> remove_chain(acc.g, dead_ren_idx),
                  stones_removed |->
                      IF color = White
                      THEN <<acc.stones_removed[1],
                             acc.stones_removed[2] + dead_ren.num_stones>>
                      ELSE <<acc.stones_removed[1] + dead_ren.num_stones,
                             acc.stones_removed[2]>>,
                  ko_point |->
                      IF dead_ren.num_stones = 1 /\ only_one_ren_removed
                      THEN one_to_2dim(acc.g.size, dead_ren.origin)
                      ELSE acc.ko_point],
                 color, dead_rens_indices, k + 1)

(* Goban::remove_captured_stones_aux.  The result is the goban after the   *)
(* call and the pair (stones_removed, ko_point) it returns.                *)
remove_captured_stones_aux(g, color, suicide_allowed, prisoners, dead_rens_indices, added_ren) ==
    LET r == remove_dead_rens(
                 [g |-> g, stones_removed |-> prisoners, ko_point |-> NoCoord],
                 color, dead_rens_indices, 1)
        num_stones == r.g.chains[added_ren].num_stones
    IN  IF suicide_allowed /\ num_stones = 0
        THEN [g |-> remove_chain(r.g, added_ren),
              stones_removed |->
                  IF color = Black
                  THEN <<r.stones_removed[1], r.stones_removed[2] + num_stones>>
                  ELSE <<r.stones_removed[1] + num_stones, r.stones_removed[2]>>,
              ko_point |-> NoCoord]
        ELSE r

(* Goban::get_color, with NoChain for EMPTY *)
get_color(g, coord) ==
    IF g.board[two_to_1dim(g.size, coord)] = NoChain THEN "Empty"
    ELSE g.chains[g.board[two_to_1dim(g.size, coord)]].color

(* The board map of the code has BOARD_MAX_LENGTH entries whatever the     *)
(* size of the goban; the entries past height * width stay None.           *)
BOARD_MAX_SIZE == <<19, 19>>

BOARD_MAX_LENGTH == BOARD_MAX_SIZE[1] * BOARD_MAX_SIZE[2]

MAX_CHAINS == (4 * BOARD_MAX_LENGTH) \div 5

(* Goban::to_vec: one entry for each entry of the board map *)
to_vec(g) ==
    [k \in 1..BOARD_MAX_LENGTH |->
        IF (k - 1) \in DOMAIN g.board /\ g.board[k - 1] # NoChain
        THEN g.chains[g.board[k - 1]].color
        ELSE "Empty"]

(* (len as f32).sqrt() as u8: the square root rounded down, 255 at most *)
sqrt_as_u8(len) ==
    LET root == CHOOSE r \in 0..len : r * r <= len /\ (r + 1) * (r + 1) > len
    IN  IF root > 255 THEN 255 ELSE root

(* Goban::from_array, lines 68-75: the stones of the array pushed in the   *)
(* order of their indices.  index_color is the pairs the filter_map keeps. *)
RECURSIVE push_array(_, _, _)
push_array(g, index_color, k) ==
    IF k > Len(index_color) THEN g
    ELSE push_array(
             push_wth_feedback(g, one_to_2dim(g.size, index_color[k][1]),
                               index_color[k][2]).g,
             index_color, k + 1)

(* Goban::from_array *)
from_array(stones) ==
    LET size == sqrt_as_u8(Len(stones))
        index_color == SelectSeq([k \in 1..Len(stones) |-> <<k - 1, stones[k]>>],
                                 LAMBDA e : e[2] # "Empty")
    IN  push_array(Goban_new(<<size, size>>), index_color, 1)

(* the stones of the chains from the c-th on, chain after chain *)
RECURSIVE stones_of_chains(_, _)
stones_of_chains(g, c) ==
    IF c \notin DOMAIN g.chains THEN <<>>
    ELSE (IF g.chains[c].used THEN iter_stones(g, c) ELSE <<>>)
             \o stones_of_chains(g, c + 1)

(* get_stones that walks the chain pool instead of the board map *)
get_stones_chain_by_chain(g) ==
    LET occupied == stones_of_chains(g, 0)
    IN  [k \in 1..Len(occupied) |->
            [coord |-> one_to_2dim(g.size, occupied[k]),
             color |-> g.chains[g.board[occupied[k]]].color]]

(* Goban::get_stones: the occupied entries of the board map in the order   *)
(* of their indices, each with the colour of its chain; the entries past   *)
(* height * width are never occupied                                       *)
get_stones(g) ==
    LET occupied == SelectSeq([k \in 1..(g.size[1] * g.size[2]) |-> k - 1],
                              LAMBDA index : g.board[index] # NoChain)
    IN  [k \in 1..Len(occupied) |->
            [coord |-> one_to_2dim(g.size, occupied[k]),
             color |-> g.chains[g.board[occupied[k]]].color]]

(* the fold of Goban::number_of_stones over the stones from the k-th on *)
RECURSIVE fold_number_of_stones(_, _, _)
fold_number_of_stones(stones, k, acc) ==
    IF k > Len(stones) THEN acc
    ELSE fold_number_of_stones(
             stones, k + 1,
             IF stones[k].color = Black THEN <<acc[1] + 1, acc[2]>>
             ELSE <<acc[1], acc[2] + 1>>)

(* Goban::number_of_stones *)
number_of_stones(g) == fold_number_of_stones(get_stones(g), 1, <<0, 0>>)

(* Goban::get_empty_coords: the length of the board is computed in usize *)
get_empty_coords(g) ==
    LET board_length == g.size[1] * g.size[2]
        empty == SelectSeq([k \in 1..board_length |-> k - 1],
                           LAMBDA x : g.board[x] = NoChain)
    IN  [k \in 1..Len(empty) |-> one_to_2dim(g.size, empty[k])]

(* size.0 * size.1 in the 8-bit type of the sizes (from_array makes them   *)
(* with `as u8`): the product when it fits; past 255 the multiplication    *)
(* panics in a build with overflow checks and wraps round in one without.  *)
mul_u8(a, b) ==
    IF a * b < 2^8 THEN {[panic |-> FALSE, value |-> a * b]}
    ELSE {[panic |-> TRUE, value |-> 0],
          [panic |-> FALSE, value |-> (a * b) % (2^8)]}

(* the loop of Goban::get_coords_by_color over 0..n *)
get_coords_by_color_loop(g, color, n) ==
    LET res == SelectSeq(
                   [k \in 1..n |-> k - 1],
                   LAMBDA board_idx :
                       IF color = "Empty" THEN TRUE
                       ELSE /\ g.board[board_idx] # NoChain
                            /\ g.chains[g.board[board_idx]].color = color)
    IN  [k \in 1..Len(res) |-> one_to_2dim(g.size, res[k])]

(* Goban::get_coords_by_color: the outcomes the call can have *)
get_coords_by_color(g, color) ==
    {[panic |-> n.panic,
      coords |-> IF n.panic THEN <<>>
                 ELSE get_coords_by_color_loop(g, color, n.value)] :
        n \in mul_u8(g.size[1], g.size[2])}

(* the loops of Game::pseudo_legals_vec *)
pseudo_legals_vec_loop(g) ==
    LET size == g.size
        ij == [k \in 1..(size[1] * size[2]) |->
                  <<(k - 1) \div size[2], (k - 1) % size[2]>>]
    IN  SelectSeq(ij, LAMBDA c : g.board[two_to_1dim(size, c)] = NoChain)

(* Game::pseudo_legals_vec: the outcomes the call can have; the product is *)
(* the capacity the vector is made with                                    *)
pseudo_legals_vec(g) ==
    {[panic |-> n.panic,
      coords |-> IF n.panic THEN <<>> ELSE pseudo_legals_vec_loop(g)] :
        n \in mul_u8(g.size[1], g.size[2])}

(* ---------------------------------------------------------------------- *)
(* Game                                                                    *)
(* ---------------------------------------------------------------------- *)
KO == "KO"
SUICIDE == "SUICIDE"
FILLEYE == "FILLEYE"
SUPERKO == "SUPERKO"

(* The illegal-move flags of the rules a game is created with. *)
Rules == {{}, {KO, SUICIDE}, {KO, SUPERKO, SUICIDE}, {KO, SUICIDE, FILLEYE}}

NoOutcome == "None"

(* Game::new, the goban apart *)
Game_new(flag_illegal) ==
    [turn |-> Black,
     prisoners |-> <<0, 0>>,
     passes |-> 0,
     outcome |-> NoOutcome,
     flag_illegal |-> flag_illegal,
     hashes |-> {},
     last_hash |-> 0,
     ko_point |-> NoCoord]

(* play that resolves the captures and does not keep the prisoners *)
play_Play_prisoners_not_stored(gm, g, point) ==
    LET hash == g.zobrist_hash
        pushed == push_wth_feedback(g, point, gm.turn)
        res == remove_captured_stones_aux(pushed.g, gm.turn,
                   SUICIDE \notin gm.flag_illegal, gm.prisoners,
                   pushed.dead, pushed.id)
    IN  [game |-> [gm EXCEPT !.last_hash = hash,
                             !.hashes = @ \cup {hash},
                             !.ko_point = res.ko_point,
                             !.turn = Opposite(gm.turn),
                             !.passes = 0],
         g |-> res.g,
         pushed |-> pushed]

(* Game::play, Move::Play: the game and its goban after the move, with the *)
(* feedback of the placement.                                              *)
play_Play(gm, g, point) ==
    LET hash == g.zobrist_hash
        pushed == push_wth_feedback(g, point, gm.turn)
        (* Game::remove_captured_stones *)
        res == remove_captured_stones_aux(pushed.g, gm.turn,
                   SUICIDE \notin gm.flag_illegal, gm.prisoners,
                   pushed.dead, pushed.id)
    IN  [game |-> [gm EXCEPT !.last_hash = hash,
                             !.hashes = @ \cup {hash},
                             !.prisoners = res.stones_removed,
                             !.ko_point = res.ko_point,
                             !.turn = Opposite(gm.turn),
                             !.passes = 0],
         g |-> res.g,
         pushed |-> pushed]

(* Game::play, Move::Pass *)
play_Pass(gm) == [gm EXCEPT !.turn = Opposite(gm.turn), !.passes = @ + 1]

(* Game::play, Move::Resign *)
play_Resign(gm, player) == [gm EXCEPT !.outcome = player]

(* Goban::get_point(coord).is_empty() *)
is_empty(g, coord) == g.board[two_to_1dim(g.size, coord)] = NoChain

(* Goban::get_liberties *)
get_liberties(g, coord) ==
    SelectSeq(neighbors_coords(g, coord), LAMBDA x : get_color(g, x) = "Empty")

(* Goban::has_liberties *)
has_liberties(g, coord) == Len(get_liberties(g, coord)) > 0

(* Goban::get_neighbors_chain_indexes *)
get_neighbors_chain_indexes(g, coord) ==
    LET points == neighbors_coords(g, coord)
    IN  SelectSeq([k \in 1..Len(points) |-> g.board[two_to_1dim(g.size, points[k])]],
                  LAMBDA idx : idx # NoChain)

(* Goban::get_neighbors_chains: the chains next to the point, one for each *)
(* neighbouring stone, so that a chain may come twice.                     *)
get_neighbors_chains(g, coord) ==
    LET ids == get_neighbors_chain_indexes(g, coord)
    IN  [k \in 1..Len(ids) |-> g.chains[ids[k]]]

(* Goban::get_neighbors_points, as the colours of the neighbouring points *)
get_neighbors_points(g, point) ==
    LET points == neighbors_coords(g, point)
    IN  [k \in 1..Len(points) |-> get_color(g, points[k])]

(* Goban::get_neighbors_stones, as the colours of the neighbouring stones *)
get_neighbors_stones(g, point) ==
    SelectSeq(get_neighbors_points(g, point), LAMBDA c : c # "Empty")

(* pieces::util::coord::corner_points, 8-bit as neighbor_coords *)
corner_points(coord) ==
    << <<(coord[1] + 1) % (2^8), (coord[2] + 1) % (2^8)>>,
       <<(coord[1] - 1) % (2^8), (coord[2] - 1) % (2^8)>>,
       <<(coord[1] + 1) % (2^8), (coord[2] - 1) % (2^8)>>,
       <<(coord[1] - 1) % (2^8), (coord[2] + 1) % (2^8)>> >>

(* will_capture that does not look at the colour of the chains *)
will_capture_any_color(gm, g, point) ==
    LET chains == get_neighbors_chains(g, point)
    IN  \E k \in 1..Len(chains) : is_atari(chains[k])

(* Game::will_capture *)
will_capture(gm, g, point) ==
    LET chains == get_neighbors_chains(g, point)
    IN  \E k \in 1..Len(chains) :
            chains[k].color # gm.turn /\ is_atari(chains[k])

(* Game::check_ko *)
check_ko(gm, stone) == gm.ko_point = stone.coord

(* check_suicide that takes every neighbouring chain for a friend *)
check_suicide_no_capture(g, stone) ==
    IF has_liberties(g, stone.coord) THEN FALSE
    ELSE LET chains == get_neighbors_chains(g, stone.coord)
         IN  ~ \E k \in 1..Len(chains) : ~is_atari(chains[k])

(* Game::check_suicide *)
check_suicide(g, stone) ==
    IF has_liberties(g, stone.coord) THEN FALSE
    ELSE LET chains == get_neighbors_chains(g, stone.coord)
         IN  ~ \E k \in 1..Len(chains) :
                   IF chains[k].color = stone.color
                   THEN ~is_atari(chains[k])
                   ELSE is_atari(chains[k])

(* play_for_verification that plays the move on the goban of the game, as *)
(* Game::play does, instead of on a clone                                  *)
play_for_verification_on_self(gm, g, point) ==
    LET pushed == push_wth_feedback(g, point, gm.turn)
        res == remove_captured_stones_aux(pushed.g, gm.turn,
                   SUICIDE \notin gm.flag_illegal, gm.prisoners,
                   pushed.dead, pushed.id)
    IN  [hash |-> res.g.zobrist_hash,
         self_goban |-> res.g,
         self_game |-> [gm EXCEPT !.prisoners = res.stones_removed,
                                  !.ko_point = res.ko_point]]

(* Game::play_for_verification: the move is played on test_goban, a clone  *)
(* of the goban of the game, with a copy of the prisoners.  hash is the    *)
(* value returned; self_goban and self_game are the goban and the other    *)
(* fields of the game when the call returns.                               *)
play_for_verification(gm, g, point) ==
    LET test_goban == g
        pushed == push_wth_feedback(test_goban, point, gm.turn)
        res == remove_captured_stones_aux(pushed.g, gm.turn,
                   SUICIDE \notin gm.flag_illegal, gm.prisoners,
                   pushed.dead, pushed.id)
    IN  [hash |-> res.g.zobrist_hash, self_goban |-> g, self_game |-> gm]

(* Game::check_superko *)
check_superko(gm, g, stone) ==
    IF gm.last_hash = 0 \/ Cardinality(gm.hashes) <= 2
           \/ ~will_capture(gm, g, stone.coord)
    THEN FALSE
    ELSE check_ko(gm, stone)
             \/ play_for_verification(gm, g, stone.coord).hash \in gm.hashes

(* Game::helper_check_eye: the corners of the point that hold a stone of   *)
(* the colour, and those off the board                                     *)
helper_check_eye(g, point, color) ==
    LET corners == corner_points(point)
    IN  <<Cardinality({k \in 1..Len(corners) :
                          /\ is_coord_valid(g.size, corners[k])
                          /\ get_color(g, corners[k]) = color}),
          Cardinality({k \in 1..Len(corners) :
                          ~is_coord_valid(g.size, corners[k])})>>

(* Game::check_eye, lines 373-392: the empty corners looked at in turn *)
RECURSIVE check_eye_corners(_, _, _, _)
check_eye_corners(g, color, empty_corners, k) ==
    IF k > Len(empty_corners) THEN FALSE
    ELSE LET s == empty_corners[k]
             stones == get_neighbors_stones(g, s)
             ca_cof == helper_check_eye(g, s, color)
             c == ca_cof[1] + ca_cof[2]
         IN  IF \E j \in 1..Len(stones) : stones[j] # color THEN FALSE
             ELSE IF c = 3 \/ c = 2 THEN TRUE
             ELSE check_eye_corners(g, color, empty_corners, k + 1)

(* check_eye that is content with any empty corner that qualifies *)
check_eye_any_corner(g, stone) ==
    LET points == get_neighbors_points(g, stone.coord)
        ca_cof == helper_check_eye(g, stone.coord, stone.color)
        corners == ca_cof[1] + ca_cof[2]
        empty_corners ==
            SelectSeq(corner_points(stone.coord),
                      LAMBDA p : is_coord_valid(g.size, p) /\ is_empty(g, p))
    IN  IF get_color(g, stone.coord) # "Empty" THEN FALSE
        ELSE IF \E k \in 1..Len(points) : points[k] # stone.color THEN FALSE
        ELSE IF corners = 4 THEN TRUE
        ELSE IF corners = 3 \/ corners = 2
             THEN \E k \in 1..Len(empty_corners) :
                      check_eye_corners(g, stone.color, <<empty_corners[k]>>, 1)
        ELSE FALSE

(* Game::check_eye *)
check_eye(g, stone) ==
    LET points == get_neighbors_points(g, stone.coord)
        ca_cof == helper_check_eye(g, stone.coord, stone.color)
        corners == ca_cof[1] + ca_cof[2]
        empty_corners ==
            SelectSeq(corner_points(stone.coord),
                      LAMBDA p : is_coord_valid(g.size, p) /\ is_empty(g, p))
    IN  IF get_color(g, stone.coord) # "Empty" THEN FALSE
        ELSE IF \E k \in 1..Len(points) : points[k] # stone.color THEN FALSE
        ELSE IF corners = 4 THEN TRUE
        ELSE IF corners = 3 \/ corners = 2
             THEN check_eye_corners(g, stone.color, empty_corners, 1)
        ELSE FALSE

NoError == "None"

(* check_point_by that leaves the point-empty test to its caller *)
check_point_by_rules_only(gm, g, point, illegal_rules) ==
    LET stone == [coord |-> point, color |-> gm.turn]
    IN  IF KO \in illegal_rules /\ check_ko(gm, stone) THEN "Ko"
        ELSE IF SUICIDE \in illegal_rules /\ check_suicide(g, stone) THEN "Suicide"
        ELSE IF FILLEYE \in illegal_rules /\ check_eye(g, stone) THEN "FillEye"
        ELSE IF SUPERKO \in illegal_rules /\ check_superko(gm, g, stone) THEN "Ko"
        ELSE NoError

(* Game::check_point_by: the PlayError of the move, or NoError *)
check_point_by(gm, g, point, illegal_rules) ==
    LET stone == [coord |-> point, color |-> gm.turn]
    IN  IF ~is_empty(g, point) THEN "PointNotEmpty"
        ELSE IF KO \in illegal_rules /\ check_ko(gm, stone) THEN "Ko"
        ELSE IF SUICIDE \in illegal_rules /\ check_suicide(g, stone) THEN "Suicide"
        ELSE IF FILLEYE \in illegal_rules /\ check_eye(g, stone) THEN "FillEye"
        ELSE IF SUPERKO \in illegal_rules /\ check_superko(gm, g, stone) THEN "Ko"
        ELSE NoError

(* Game::check_point *)
check_point(gm, g, point) == check_point_by(gm, g, point, gm.flag_illegal)

(* try_play that makes the move on the game itself before it checks it *)
try_play_Play_checked_after(gm, g, point) ==
    IF gm.passes = 2
    THEN [game |-> gm, g |-> g, result |-> "GamePaused"]
    ELSE IF get_color(g, point) # "Empty"
    THEN [game |-> gm, g |-> g, result |-> "PointNotEmpty"]
    ELSE LET r == play_Play(gm, g, point)
         IN  [game |-> r.game, g |-> r.g,
              result |-> IF check_point(gm, g, point) # NoError
                         THEN check_point(gm, g, point) ELSE "Ok"]

(* Game::try_play, Move::Play: the game and its goban after the call, and  *)
(* Ok or the PlayError returned                                            *)
try_play_Play(gm, g, point) ==
    IF gm.passes = 2
    THEN [game |-> gm, g |-> g, result |-> "GamePaused"]
    ELSE IF get_color(g, point) # "Empty"
    THEN [game |-> gm, g |-> g, result |-> "PointNotEmpty"]
    ELSE IF check_point(gm, g, point) # NoError
    THEN [game |-> gm, g |-> g, result |-> check_point(gm, g, point)]
    ELSE LET r == play_Play(gm, g, point)
         IN  [game |-> r.game, g |-> r.g, result |-> "Ok"]

(* try_play of a pass that does not look at the pass counter *)
try_play_Pass_not_paused(gm) == [game |-> play_Pass(gm), result |-> "Ok"]

(* Game::try_play, Move::Pass *)
try_play_Pass(gm) ==
    IF gm.passes = 2
    THEN [game |-> gm, result |-> "GamePaused"]
    ELSE [game |-> play_Pass(gm), result |-> "Ok"]

(* Game::try_play, Move::Resign *)
try_play_Resign(gm, player) ==
    IF gm.passes = 2
    THEN [game |-> gm, result |-> "GamePaused"]
    ELSE [game |-> play_Resign(gm, player), result |-> "Ok"]

(* Game::try_play_color, Move::Play: the turn is set before try_play and   *)
(* stays set when it fails                                                 *)
try_play_color_Play(gm, g, color, point) ==
    try_play_Play([gm EXCEPT !.turn = color], g, point)

(* Game::resume *)
resume(gm) == [gm EXCEPT !.passes = 0]

(* Game::is_over *)
is_over(gm) == IF gm.outcome # NoOutcome THEN TRUE ELSE gm.passes >= 2

(* ---------------------------------------------------------------------- *)
(* The state machines.  ret is what the last call was given and what it    *)
(* returned, placed the colour of the last stone put on each cell, ops the *)
(* number of calls made of the methods that change the object.            *)
(* ---------------------------------------------------------------------- *)
Sizes == {s \in (1..MaxCells) \X (1..MaxCells) : s[1] * s[2] <= MaxCells}

Coords(size) == (0 .. size[1] - 1) \X (0 .. size[2] - 1)

PrisonerInputs == {<<0, 0>>, <<2, 1>>}

NoRet ==
    [op |-> "new", point |-> NoCoord, color |-> Black, dead |-> <<>>,
     id |-> NoChain, number_of_neighbors_strings |-> 0,
     suicide_allowed |-> FALSE, prisoners_in |-> <<0, 0>>,
     prisoners |-> <<0, 0>>, ko_point |-> NoCoord, result |-> "Ok"]

(* A Goban used on its own, through push, remove_captured_stones_aux and   *)
(* remove_chain.                                                           *)
Init ==
    /\ \E size \in Sizes : goban = Goban_new(size)
    /\ game = Game_new({})
    /\ ret = NoRet
    /\ placed = [i \in DOMAIN goban.board |-> "Empty"]
    /\ ops = 0

(* a push that takes the chains it kills off the board *)
Push_and_capture(point, color) ==
    /\ ops < MaxOps
    /\ get_color(goban, point) = "Empty"
    /\ \E r \in {push_wth_feedback(goban, point, color)} :
           /\ goban' = remove_captured_stones_aux(r.g, color, FALSE, <<0, 0>>,
                                                  r.dead, r.id).g
           /\ ret' = [NoRet EXCEPT !.op = "push", !.point = point,
                          !.color = color, !.dead = r.dead, !.id = r.id,
                          !.number_of_neighbors_strings =
                              r.number_of_neighbors_strings]
    /\ placed' = [placed EXCEPT ![two_to_1dim(goban.size, point)] = color]
    /\ ops' = ops + 1
    /\ UNCHANGED game

(* Goban::push on an empty cell of the board *)
Push(point, color) ==
    /\ ops < MaxOps
    /\ get_color(goban, point) = "Empty"
    /\ \E r \in {push_wth_feedback(goban, point, color)} :
           /\ goban' = r.g
           /\ ret' = [NoRet EXCEPT !.op = "push", !.point = point,
                          !.color = color, !.dead = r.dead, !.id = r.id,
                          !.number_of_neighbors_strings =
                              r.number_of_neighbors_strings]
    /\ placed' = [placed EXCEPT ![two_to_1dim(goban.size, point)] = color]
    /\ ops' = ops + 1
    /\ UNCHANGED game

(* Goban::remove_captured_stones_aux with the feedback of the push that    *)
(* was just made                                                           *)
RemoveCaptured(suicide_allowed, prisoners) ==
    /\ ops < MaxOps
    /\ ret.op = "push"
    /\ \E r \in {remove_captured_stones_aux(goban, ret.color, suicide_allowed,
                                            prisoners, ret.dead, ret.id)} :
           /\ goban' = r.g
           /\ ret' = [ret EXCEPT !.op = "remove_captured",
                          !.suicide_allowed = suicide_allowed,
                          !.prisoners_in = prisoners,
                          !.prisoners = r.stones_removed,
                          !.ko_point = r.ko_point]
    /\ ops' = ops + 1
    /\ UNCHANGED <<game, placed>>

(* Goban::remove_chain of a chain in use *)
RemoveChain(ren_to_remove_idx) ==
    /\ ops < MaxOps
    /\ goban.chains[ren_to_remove_idx].used
    /\ goban' = remove_chain(goban, ren_to_remove_idx)
    /\ ret' = [NoRet EXCEPT !.op = "remove_chain", !.id = ren_to_remove_idx]
    /\ ops' = ops + 1
    /\ UNCHANGED <<game, placed>>

Next ==
    \/ \E point \in Coords(goban.size), color \in Colors : Push(point, color)
    \/ \E suicide_allowed \in BOOLEAN, prisoners \in PrisonerInputs :
           RemoveCaptured(suicide_allowed, prisoners)
    \/ \E ren_to_remove_idx \in DOMAIN goban.chains : RemoveChain(ren_to_remove_idx)

Spec == Init /\ [][Next]_vars

(* A Game played through Game::play. *)
InitGame ==
    /\ \E size \in Sizes : goban = Goban_new(size)
    /\ \E flag_illegal \in Rules : game = Game_new(flag_illegal)
    /\ ret = NoRet
    /\ placed = [i \in DOMAIN goban.board |-> "Empty"]
    /\ ops = 0

(* Game::play(Move::Play(x, y)) on an empty point *)
Play(point) ==
    /\ ops < MaxOps
    /\ get_color(goban, point) = "Empty"
    /\ \E r \in {play_Play(game, goban, point)} :
           /\ goban' = r.g
           /\ game' = r.game
           /\ ret' = [NoRet EXCEPT !.op = "play", !.point = point,
                          !.color = game.turn, !.dead = r.pushed.dead,
                          !.id = r.pushed.id,
                          !.number_of_neighbors_strings =
                              r.pushed.number_of_neighbors_strings,
                          !.suicide_allowed = SUICIDE \notin game.flag_illegal,
                          !.prisoners_in = game.prisoners,
                          !.prisoners = r.game.prisoners,
                          !.ko_point = r.game.ko_point]
    /\ placed' = [placed EXCEPT ![two_to_1dim(goban.size, point)] = game.turn]
    /\ ops' = ops + 1

(* Game::play(Move::Pass); the call panics once two passes were made *)
Pass ==
    /\ ops < MaxOps
    /\ game.passes < 2
    /\ game' = play_Pass(game)
    /\ ret' = [NoRet EXCEPT !.op = "pass"]
    /\ ops' = ops + 1
    /\ UNCHANGED <<goban, placed>>

(* Game::play(Move::Resign(player)) *)
Resign(player) ==
    /\ ops < MaxOps
    /\ game' = play_Resign(game, player)
    /\ ret' = [NoRet EXCEPT !.op = "resign", !.color = player]
    /\ ops' = ops + 1
    /\ UNCHANGED <<goban, placed>>

NextGame ==
    \/ \E point \in Coords(goban.size) : Play(point)
    \/ Pass
    \/ \E player \in Colors : Resign(player)

SpecGame == InitGame /\ [][NextGame]_vars

(* A Game played through Game::try_play, with play_for_verification asked  *)
(* in between.                                                             *)
InitTry ==
    /\ \E size \in Sizes : size[1] * size[2] <= MaxTryCells /\ goban = Goban_new(size)
    /\ \E flag_illegal \in Rules : game = Game_new(flag_illegal)
    /\ ret = NoRet
    /\ placed = [i \in DOMAIN goban.board |-> "Empty"]
    /\ ops = 0

TryPlay(point) ==
    /\ ops < MaxTryOps
    /\ \E r \in {try_play_Play(game, goban, point)} :
           /\ goban' = r.g
           /\ game' = r.game
           /\ ret' = [NoRet EXCEPT !.op = "try_play", !.point = point,
                          !.color = game.turn, !.result = r.result,
                          !.prisoners_in = game.prisoners,
                          !.prisoners = r.game.prisoners,
                          !.ko_point = r.game.ko_point]
           /\ placed' = IF r.result = "Ok"
                        THEN [placed EXCEPT ![two_to_1dim(goban.size, point)] = game.turn]
                        ELSE placed
    /\ ops' = ops + 1

TryPass ==
    /\ ops < MaxTryOps
    /\ \E r \in {try_play_Pass(game)} :
           /\ game' = r.game
           /\ ret' = [NoRet EXCEPT !.op = "try_pass", !.result = r.result]
    /\ ops' = ops + 1
    /\ UNCHANGED <<goban, placed>>

TryResign(player) ==
    /\ ops < MaxTryOps
    /\ \E r \in {try_play_Resign(game, player)} :
           /\ game' = r.game
           /\ ret' = [NoRet EXCEPT !.op = "try_resign", !.color = player,
                          !.result = r.result]
    /\ ops' = ops + 1
    /\ UNCHANGED <<goban, placed>>

(* Game::play_for_verification of an empty point; the call takes the game  *)
(* by shared reference and is not counted in ops                           *)
PlayForVerification(point) ==
    /\ get_color(goban, point) = "Empty"
    /\ \E r \in {play_for_verification(game, goban, point)} :
           /\ goban' = r.self_goban
           /\ game' = r.self_game
           /\ ret' = [NoRet EXCEPT !.op = "play_for_verification",
                          !.point = point, !.color = game.turn,
                          !.id = r.hash]
    /\ UNCHANGED <<placed, ops>>

(* Game::resume *)
Resume ==
    /\ ops < MaxTryOps
    /\ game' = resume(game)
    /\ ret' = [NoRet EXCEPT !.op = "resume"]
    /\ ops' = ops + 1
    /\ UNCHANGED <<goban, placed>>

NextTry ==
    \/ \E point \in Coords(goban.size) : TryPlay(point)
    \/ TryPass
    \/ \E player \in Colors : TryResign(player)
    \/ \E point \in Coords(goban.size) : PlayForVerification(point)
    \/ Resume

SpecTry == InitTry /\ [][NextTry]_vars

(* A long game of placements through Game::play on the 1x2 goban, where    *)
(* each stone takes the one before it.                                     *)
InitLong ==
    /\ goban = Goban_new(<<1, 2>>)
    /\ game = Game_new({})
    /\ ret = NoRet
    /\ placed = [i \in DOMAIN goban.board |-> "Empty"]
    /\ ops = 0

(* Game::play(Move::Play(x, y)) on an empty point *)
LongPlay(point) ==
    /\ ops < MaxLongOps
    /\ get_color(goban, point) = "Empty"
    /\ \E r \in {play_Play(game, goban, point)} :
           /\ goban' = r.g
           /\ game' = r.game
           /\ ret' = [NoRet EXCEPT !.op = "play", !.point = point,
                          !.color = game.turn, !.dead = r.pushed.dead,
                          !.id = r.pushed.id,
                          !.prisoners_in = game.prisoners,
                          !.prisoners = r.game.prisoners,
                          !.ko_point = r.game.ko_point]
    /\ placed' = [placed EXCEPT ![two_to_1dim(goban.size, point)] = game.turn]
    /\ ops' = ops + 1

NextLong == \E point \in Coords(goban.size) : LongPlay(point)

SpecLong == InitLong /\ [][NextLong]_vars

(* The state of the long game on the 1x2 goban after n >= 3 placements,    *)
(* Black having begun on (0,0): placement k (from 0) is on cell k % 2, by  *)
(* Black when k is even, makes chain k and, from the second on, takes      *)
(* chain k - 1.  SpecLong reaches exactly these states.                    *)
LongState(n) ==
    LET k == n - 1
        cell(i) == i % 2
        color(i) == IF i % 2 = 0 THEN Black ELSE White
        prisoners(i) == <<i \div 2, (i + 1) \div 2>>
    IN  [goban |->
             [size |-> <<1, 2>>,
              zobrist_hash |-> index_zobrist(cell(k), color(k)),
              board |-> (cell(k) :> (k % (2^16))) @@ ((1 - cell(k)) :> NoChain),
              next_stone |-> (0 :> 0) @@ (1 :> 1),
              chains |-> [i \in 0..k |->
                             [color |-> color(i), origin |-> cell(i),
                              num_stones |-> 1, last |-> cell(i),
                              liberties |-> IF i = k THEN {1 - cell(k)} ELSE {},
                              used |-> i = k]]],
         game |->
             [Game_new({}) EXCEPT
                  !.turn = Opposite(color(k)),
                  !.prisoners = prisoners(k),
                  !.hashes = {0, index_zobrist(0, Black), index_zobrist(1, White)},
                  !.last_hash = index_zobrist(cell(k - 1), color(k - 1)),
                  !.ko_point = <<0, cell(k - 1)>>],
         ret |-> [NoRet EXCEPT !.op = "play", !.point = <<0, cell(k)>>,
                      !.color = color(k), !.dead = <<k - 1>>, !.id = k,
                      !.prisoners_in = prisoners(k - 1),
                      !.prisoners = prisoners(k),
                      !.ko_point = <<0, cell(k - 1)>>],
         placed |-> (0 :> Black) @@ (1 :> White)]

(* The long game taken up when the pool has 2^16 slots or up to            *)
(* MaxWideBefore fewer, and played on past that.                           *)
InitWide ==
    \E n \in (2^16 - MaxWideBefore)..(2^16) :
        \E s \in {LongState(n)} :
            /\ goban = s.goban
            /\ game = s.game
            /\ ret = s.ret
            /\ placed = s.placed
            /\ ops = n

(* Game::play(Move::Play(x, y)) on an empty point *)
WidePlay(point) ==
    /\ ops < 2^16 + MaxWideAfter
    /\ get_color(goban, point) = "Empty"
    /\ \E r \in {play_Play(game, goban, point)} :
           /\ goban' = r.g
           /\ game' = r.game
           /\ ret' = [NoRet EXCEPT !.op = "play", !.point = point,
                          !.color = game.turn, !.dead = r.pushed.dead,
                          !.id = r.pushed.id,
                          !.prisoners_in = game.prisoners,
                          !.prisoners = r.game.prisoners,
                          !.ko_point = r.game.ko_point]
    /\ placed' = [placed EXCEPT ![two_to_1dim(goban.size, point)] = game.turn]
    /\ ops' = ops + 1

NextWide == \E point \in Coords(goban.size) : WidePlay(point)

SpecWide == InitWide /\ [][NextWide]_vars

(* The boards check_eye is asked about: at most MaxEyeStones stones pushed  *)
(* on a goban of one of two sizes in the order of their indices, as        *)
(* from_array pushes them.                                                 *)
EyeSizes == {<<2, 3>>, <<3, 4>>}

InitEye ==
    /\ \E size \in EyeSizes : goban = Goban_new(size)
    /\ game = Game_new({FILLEYE})
    /\ ret = NoRet
    /\ placed = [i \in DOMAIN goban.board |-> "Empty"]
    /\ ops = 0

(* Goban::push on a cell past every stone of the board *)
EyePush(point, color) ==
    /\ ops < MaxEyeStones
    /\ \A i \in DOMAIN goban.board :
           i >= two_to_1dim(goban.size, point) => goban.board[i] = NoChain
    /\ \E r \in {push_wth_feedback(goban, point, color)} :
           /\ goban' = r.g
           /\ ret' = [NoRet EXCEPT !.op = "push", !.point = point,
                          !.color = color, !.dead = r.dead, !.id = r.id,
                          !.number_of_neighbors_strings =
                              r.number_of_neighbors_strings]
    /\ placed' = [placed EXCEPT ![two_to_1dim(goban.size, point)] = color]
    /\ ops' = ops + 1
    /\ UNCHANGED game

NextEye == \E point \in Coords(goban.size), color \in Colors : EyePush(point, color)

SpecEye == InitEye /\ [][NextEye]_vars

(* The first stones pushed on the goban of the largest size.  The stones go *)
(* on the first MaxBigCells cells, whose Zobrist values the integers of the *)
(* model can hold.                                                          *)
InitBig ==
    /\ goban = Goban_new(BOARD_MAX_SIZE)
    /\ game = Game_new({})
    /\ ret = NoRet
    /\ placed = [i \in DOMAIN goban.board |-> "Empty"]
    /\ ops = 0

(* Goban::push on an empty cell of the board *)
BigPush(point, color) ==
    /\ ops < MaxBigOps
    /\ two_to_1dim(goban.size, point) < MaxBigCells
    /\ get_color(goban, point) = "Empty"
    /\ \E r \in {push_wth_feedback(goban, point, color)} :
           /\ goban' = r.g
           /\ ret' = [NoRet EXCEPT !.op = "push", !.point = point,
                          !.color = color, !.dead = r.dead, !.id = r.id,
                          !.number_of_neighbors_strings =
                              r.number_of_neighbors_strings]
    /\ placed' = [placed EXCEPT ![two_to_1dim(goban.size, point)] = color]
    /\ ops' = ops + 1
    /\ UNCHANGED game

NextBig == \E point \in Coords(goban.size), color \in Colors : BigPush(point, color)

SpecBig == InitBig /\ [][NextBig]_vars

(* ---------------------------------------------------------------------- *)
(* The board as the claims speak of it.                                    *)
(* ---------------------------------------------------------------------- *)
Abs(x) == IF x < 0 THEN -x ELSE x

(* i and j are orthogonally adjacent cells of the board *)
Adjacent(size, i, j) ==
    Abs((i \div size[2]) - (j \div size[2])) + Abs((i % size[2]) - (j % size[2])) = 1

UsedChains(g) == {c \in DOMAIN g.chains : g.chains[c].used}

(* the cells the board map gives to chain c *)
StonesOf(g, c) == {i \in DOMAIN g.board : g.board[i] = c}

Occupied(g) == {i \in DOMAIN g.board : g.board[i] # NoChain}

(* the empty cells next to a stone of chain c *)
EmptyAround(g, c) ==
    {e \in DOMAIN g.board :
        /\ g.board[e] = NoChain
        /\ \E s \in StonesOf(g, c) : Adjacent(g.size, e, s)}

SeqToSet(seq) == {seq[k] : k \in 1..Len(seq)}

Min(S) == CHOOSE x \in S : \A y \in S : x <= y

RECURSIVE XorOver(_, _)
XorOver(g, cells) ==
    IF cells = {} THEN 0
    ELSE LET i == CHOOSE x \in cells : TRUE
         IN  Xor(index_zobrist(i, g.chains[g.board[i]].color),
                 XorOver(g, cells \ {i}))

(* C1: the liberty set of every used chain is exactly the set of empty     *)
(* cells orthogonally adjacent to one of its stones.                       *)
C1_LibertiesExact ==
    \A c \in UsedChains(goban) : goban.chains[c].liberties = EmptyAround(goban, c)

(* a chain next to a captured chain has got a liberty back *)
C1_Witness ==
    /\ ret.op = "remove_captured"
    /\ Len(ret.dead) >= 1
    /\ \E c \in UsedChains(goban) :
           /\ goban.chains[c].num_stones >= 2
           /\ Cardinality(goban.chains[c].liberties) >= 2

(* C2: the next_stone cycle of every used chain, started at its origin,    *)
(* comes back to the origin after num_stones distinct cells, all of them   *)
(* cells of the chain in the board map, and last is the cell before the    *)
(* origin.                                                                 *)
C2_CycleOfChain ==
    \A c \in UsedChains(goban) :
        LET cycle == iter_stones(goban, c)
            chain == goban.chains[c]
        IN  /\ Len(cycle) = chain.num_stones
            /\ Cardinality(SeqToSet(cycle)) = chain.num_stones
            /\ \A k \in 1..Len(cycle) : goban.board[cycle[k]] = c
            /\ cycle[1] = chain.origin
            /\ cycle[Len(cycle)] = chain.last
            /\ goban.next_stone[chain.last] = chain.origin

(* a chain of three stones or more made by a merge *)
C2_Witness ==
    /\ ret.op = "push"
    /\ ret.number_of_neighbors_strings >= 2
    /\ goban.chains[ret.id].num_stones >= 3

(* C3: every occupied cell holds the id of a used chain of the colour of   *)
(* the stone put there, and no cell is on the cycle of two used chains.    *)
C3_BoardMapsToUsedChain ==
    /\ \A i \in Occupied(goban) :
           /\ goban.board[i] \in UsedChains(goban)
           /\ goban.chains[goban.board[i]].color = placed[i]
    /\ \A c1, c2 \in UsedChains(goban) :
           c1 # c2 =>
               SeqToSet(iter_stones(goban, c1)) \cap SeqToSet(iter_stones(goban, c2)) = {}

(* chains of both colours on the board beside retired slots *)
C3_Witness ==
    /\ \E c1, c2 \in UsedChains(goban) :
           goban.chains[c1].color # goban.chains[c2].color
    /\ \E c \in DOMAIN goban.chains :
           ~goban.chains[c].used /\ goban.board[goban.chains[c].origin] # NoChain

(* C4: the Zobrist hash is the XOR of index_zobrist(i, colour(i)) over the *)
(* occupied cells.                                                         *)
C4_HashIsXorOfStones ==
    goban.zobrist_hash = XorOver(goban, Occupied(goban))

(* stones were removed and stones of both colours are left *)
C4_Witness ==
    /\ ret.op \in {"remove_captured", "remove_chain"}
    /\ \E i, j \in Occupied(goban) : placed[i] = Black /\ placed[j] = White
    /\ \E i \in DOMAIN goban.board : placed[i] # "Empty" /\ goban.board[i] = NoChain

(* C5: adjacent stones of one colour are in one chain.                     *)
C5_SameColourAdjacentMerged ==
    \A i, j \in Occupied(goban) :
        (Adjacent(goban.size, i, j) /\ placed[i] = placed[j]) =>
            (goban.board[i] = goban.board[j] /\ goban.board[i] \in UsedChains(goban))

(* a stone was put next to two chains or more of its colour *)
C5_Witness ==
    /\ ret.op = "push"
    /\ ret.number_of_neighbors_strings >= 2

(* C6: the origin of every used chain is the smallest index among its      *)
(* stones.                                                                 *)
C6_OriginIsMin ==
    \A c \in UsedChains(goban) :
        /\ StonesOf(goban, c) # {}
        /\ goban.chains[c].origin = Min(StonesOf(goban, c))

(* a chain got a stone below its origin, by a merge or by an extension *)
C6_Witness ==
    /\ ret.op = "push"
    /\ ret.number_of_neighbors_strings >= 1
    /\ goban.chains[ret.id].origin = two_to_1dim(goban.size, ret.point)
    /\ \E c \in DOMAIN goban.chains :
           /\ ~goban.chains[c].used
           /\ goban.board[goban.chains[c].origin] = ret.id

(* C7: push_wth_feedback on an empty cell p returns in dead, each once,    *)
(* exactly the chains of the other colour next to p that are left without  *)
(* a liberty, and as id the chain the board map gives p after the call.    *)
C7_PushFeedback ==
    ret.op = "push" =>
        LET p == two_to_1dim(goban.size, ret.point)
            starved == {c \in DOMAIN goban.chains :
                           /\ goban.chains[c].color # ret.color
                           /\ \E s \in StonesOf(goban, c) : Adjacent(goban.size, p, s)
                           /\ goban.chains[c].liberties = {}}
        IN  /\ SeqToSet(ret.dead) = starved
            /\ Len(ret.dead) = Cardinality(starved)
            /\ ret.id = goban.board[p]
            /\ p \in SeqToSet(iter_stones(goban, ret.id))

(* the push took the last liberty of a chain it touches with two stones *)
C7_Witness ==
    /\ ret.op = "push"
    /\ Len(ret.dead) >= 1
    /\ \E s1, s2 \in StonesOf(goban, ret.dead[1]) :
           /\ s1 # s2
           /\ Adjacent(goban.size, two_to_1dim(goban.size, ret.point), s1)
           /\ Adjacent(goban.size, two_to_1dim(goban.size, ret.point), s2)

(* C8: remove_captured_stones_aux returns a ko point if and only if the    *)
(* dead list holds one chain and that chain has one stone, and the ko      *)
(* point is then the coordinate of that stone.                             *)
C8_KoPoint ==
    [][ret'.op = "remove_captured" =>
          LET one_stone_died ==
                  /\ Len(ret'.dead) = 1
                  /\ Cardinality(StonesOf(goban, ret'.dead[1])) = 1
          IN  /\ (ret'.ko_point # NoCoord) <=> one_stone_died
              /\ one_stone_died =>
                     \A s \in StonesOf(goban, ret'.dead[1]) :
                         ret'.ko_point = <<s \div goban.size[2], s % goban.size[2]>>
      ]_vars

(* one chain of one stone was captured and the ko point was returned *)
C8_Witness ==
    /\ ret.op = "remove_captured"
    /\ Len(ret.dead) = 1
    /\ ret.ko_point # NoCoord

(* two chains were captured at once *)
C8_WitnessTwoChains ==
    /\ ret.op = "remove_captured"
    /\ Len(ret.dead) = 2
    /\ ret.ko_point = NoCoord

(* C9: when the placed chain is left without a liberty, nothing is         *)
(* captured and suicide is allowed, remove_captured_stones_aux retires the *)
(* placed chain, empties its cells, takes it out of the hash and adds its  *)
(* stones to the prisoners.                                                *)
C9_SuicideRetiresChain ==
    (/\ ret.op = "remove_captured"
     /\ ret.suicide_allowed
     /\ Len(ret.dead) = 0
     /\ goban.chains[ret.id].liberties = {})
    =>
        /\ ~goban.chains[ret.id].used
        /\ \A s \in SeqToSet(iter_stones(goban, ret.id)) : goban.board[s] = NoChain
        /\ goban.zobrist_hash = XorOver(goban, Occupied(goban))
        /\ ret.prisoners[1] + ret.prisoners[2] =
               ret.prisoners_in[1] + ret.prisoners_in[2]
                   + goban.chains[ret.id].num_stones

(* C10: after Game::play of a placement every chain whose last liberty the *)
(* move took, which are the chains the placement reported dead, is off the *)
(* board: its cells are empty, its slot is retired, and every chain next   *)
(* to one of its cells has that cell as a liberty.                         *)
C10_DeadChainsOffBoard ==
    [][ret'.op = "play" =>
          LET p == two_to_1dim(goban.size, ret'.point)
              doomed == {c \in UsedChains(goban) :
                            /\ goban.chains[c].color # game.turn
                            /\ EmptyAround(goban, c) = {p}}
          IN  /\ SeqToSet(ret'.dead) = doomed
              /\ \A c \in doomed :
                     /\ ~goban'.chains[c].used
                     /\ \A s \in StonesOf(goban, c) :
                            /\ goban'.board[s] = NoChain
                            /\ \A j \in Occupied(goban') :
                                   Adjacent(goban.size, s, j) =>
                                       s \in goban'.chains[goban'.board[j]].liberties
      ]_vars

(* a move of the game captured a chain *)
C10_Witness ==
    /\ ret.op = "play"
    /\ Len(ret.dead) >= 1
    /\ \E i \in DOMAIN goban.board : placed[i] # "Empty" /\ goban.board[i] = NoChain

(* the empty points of the board *)
EmptyPoints(g) == {p \in Coords(g.size) : is_empty(g, p)}

(* the used chains with a stone next to the point *)
ChainsNextTo(g, point) ==
    {c \in UsedChains(g) :
        \E s \in StonesOf(g, c) : Adjacent(g.size, two_to_1dim(g.size, point), s)}

(* C11: check_suicide of a stone on an empty point is true if and only if  *)
(* push_wth_feedback of that stone reports no dead chain and leaves the    *)
(* chain of the stone without a liberty; and if and only if the point has  *)
(* no empty neighbour, no chain of the stone's colour next to it has more  *)
(* than one liberty and no chain of the other colour next to it has        *)
(* exactly one.                                                            *)
C11_SuicideIffNoLibertyNoCapture ==
    \A point \in EmptyPoints(goban), color \in Colors :
        LET stone == [coord |-> point, color |-> color]
            pushed == push_wth_feedback(goban, point, color)
            p == two_to_1dim(goban.size, point)
        IN  /\ check_suicide(goban, stone) <=>
                   (/\ Len(pushed.dead) = 0
                    /\ pushed.g.chains[pushed.id].liberties = {})
            /\ check_suicide(goban, stone) <=>
                   (/\ \A e \in DOMAIN goban.board :
                           Adjacent(goban.size, p, e) => goban.board[e] # NoChain
                    /\ \A c \in ChainsNextTo(goban, point) :
                           IF goban.chains[c].color = color
                           THEN Cardinality(goban.chains[c].liberties) <= 1
                           ELSE Cardinality(goban.chains[c].liberties) # 1)

(* a point whose neighbours are all stones, one of them of a chain of the  *)
(* mover in atari, is a suicide, and another such point is not one because *)
(* the move captures                                                       *)
C11_Witness ==
    /\ \E point \in EmptyPoints(goban) :
           /\ check_suicide(goban, [coord |-> point, color |-> game.turn])
           /\ \E c \in ChainsNextTo(goban, point) : goban.chains[c].color = game.turn
    /\ \E point \in EmptyPoints(goban) :
           /\ ~has_liberties(goban, point)
           /\ ~check_suicide(goban, [coord |-> point, color |-> game.turn])
           /\ will_capture(game, goban, point)

(* the hashes of the positions the game has been in: those a placement was *)
(* made from, and the one on the board                                     *)
ReachedHashes == game.hashes \cup {goban.zobrist_hash}

(* the stone of the player to move on the point *)
StoneOfTurn(point) == [coord |-> point, color |-> game.turn]

(* the placement of the player to move on the point takes a chain *)
Captures(point) == Len(push_wth_feedback(goban, point, game.turn).dead) > 0

(* C12: check_superko is true of every capturing move that gives a         *)
(* position whose hash is the hash of a position the game has been in, and *)
(* of every capturing move check_ko is true of.                            *)
C12_SuperkoCoversRepetition ==
    \A point \in EmptyPoints(goban) :
        Captures(point) =>
            /\ play_Play(game, goban, point).g.zobrist_hash \in ReachedHashes
                   => check_superko(game, goban, StoneOfTurn(point))
            /\ check_ko(game, StoneOfTurn(point))
                   => check_superko(game, goban, StoneOfTurn(point))

(* C13: a ko point set by a placement is in force for the next ply only:   *)
(* after the ply that follows the capturing placement, a placement or a    *)
(* Pass, check_ko is not true of that point any more, unless that ply      *)
(* captured a single stone and set it again.                               *)
C13_KoPointOnePly ==
    [][(/\ ret.op = "play"
        /\ ret.ko_point # NoCoord
        /\ ret'.op \in {"play", "pass"}
        /\ check_ko(game', [coord |-> ret.ko_point, color |-> game'.turn]))
       =>
           /\ ret'.op = "play"
           /\ Len(ret'.dead) = 1
           /\ goban.chains[ret'.dead[1]].num_stones = 1
      ]_vars

(* C14: once a placement has been made, check_ko is true of the stone of   *)
(* the player to move on an empty point exactly when playing it, captures  *)
(* resolved, gives the position the previous placement was made from.  The *)
(* hash tells the positions apart: the table has one bit for each cell and *)
(* colour, and last_hash is the hash of that position.                     *)
C14_KoIffPositionRepeats ==
    game.hashes # {} =>
        \A point \in EmptyPoints(goban) :
            check_ko(game, StoneOfTurn(point)) <=>
                play_Play(game, goban, point).g.zobrist_hash = game.last_hash

(* the number of stones the step takes off the board *)
StonesTaken == Cardinality(Occupied(goban)) - Cardinality(Occupied(goban'))

(* C15, as claimed: when the move of Black captures, the call of           *)
(* remove_captured_stones_aux adds the captured stones to the second       *)
(* component of the prisoners; a single stone captured at (1,1) with       *)
(* prisoners (0,0) gives (0,1) and the ko point (1,1).                     *)
C15_BlackCaptureCreditsSecond ==
    [][(/\ ret'.op = "remove_captured"
        /\ ret'.color = Black
        /\ Len(ret'.dead) >= 1)
       =>
           /\ ret'.prisoners =
                  <<ret'.prisoners_in[1], ret'.prisoners_in[2] + StonesTaken>>
           /\ (/\ ret'.prisoners_in = <<0, 0>>
               /\ StonesTaken = 1
               /\ is_coord_valid(goban.size, <<1, 1>>)
               /\ goban.board[two_to_1dim(goban.size, <<1, 1>>)] = ret'.dead[1])
              => (ret'.prisoners = <<0, 1>> /\ ret'.ko_point = <<1, 1>>)
      ]_vars

(* C15, amended: the captured stones are added to the component of the     *)
(* mover, the first for Black and the second for White; Black capturing a  *)
(* single stone at (1,1) with prisoners (0,0) gets (1,0) and the ko point  *)
(* (1,1).                                                                  *)
C15_CaptureCreditsMover ==
    [][(/\ ret'.op = "remove_captured"
        /\ Len(ret'.dead) >= 1)
       =>
           /\ ret'.prisoners =
                  IF ret'.color = Black
                  THEN <<ret'.prisoners_in[1] + StonesTaken, ret'.prisoners_in[2]>>
                  ELSE <<ret'.prisoners_in[1], ret'.prisoners_in[2] + StonesTaken>>
           /\ (/\ ret'.color = Black
               /\ ret'.prisoners_in = <<0, 0>>
               /\ StonesTaken = 1
               /\ is_coord_valid(goban.size, <<1, 1>>)
               /\ goban.board[two_to_1dim(goban.size, <<1, 1>>)] = ret'.dead[1])
              => (ret'.prisoners = <<1, 0>> /\ ret'.ko_point = <<1, 1>>)
      ]_vars

(* Black has captured the single white stone at (1,1) *)
C15_Witness ==
    /\ ret.op = "remove_captured"
    /\ ret.color = Black
    /\ Len(ret.dead) = 1
    /\ ret.prisoners_in = <<0, 0>>
    /\ ret.prisoners = <<1, 0>>
    /\ ret.ko_point = <<1, 1>>

RECURSIVE SumStones(_, _)
SumStones(g, chains) ==
    IF chains = {} THEN 0
    ELSE LET c == CHOOSE x \in chains : TRUE
         IN  g.chains[c].num_stones + SumStones(g, chains \ {c})

(* the used chains of the colour with a stone next to cell p *)
FriendsOf(g, p, color) ==
    {c \in UsedChains(g) :
        /\ g.chains[c].color = color
        /\ \E s \in StonesOf(g, c) : Adjacent(g.size, p, s)}

(* C16: a stone pushed on an empty cell next to k >= 2 chains of its       *)
(* colour leaves one used chain with the stone and all the stones of the   *)
(* k chains: num_stones is the sum of theirs plus one, origin the least    *)
(* index of the union, liberties the empty neighbours of the union, and of *)
(* the k + 1 slots, the k chains and the one just created, exactly k are   *)
(* retired.                                                                *)
C16_MergeOfSeveralChains ==
    [][ret'.op = "push" =>
          LET p == two_to_1dim(goban.size, ret'.point)
              friends == FriendsOf(goban, p, ret'.color)
              k == Cardinality(friends)
              union == {p} \cup UNION {StonesOf(goban, c) : c \in friends}
              slots == friends \cup {NumChains(goban)}
              merged == goban'.chains[ret'.id]
          IN  k >= 2 =>
                  /\ DOMAIN goban'.chains = DOMAIN goban.chains \cup {NumChains(goban)}
                  /\ ret'.id \in slots
                  /\ {c \in slots : goban'.chains[c].used} = {ret'.id}
                  /\ Cardinality({c \in slots : ~goban'.chains[c].used}) = k
                  /\ StonesOf(goban', ret'.id) = union
                  /\ SeqToSet(iter_stones(goban', ret'.id)) = union
                  /\ merged.num_stones = SumStones(goban, friends) + 1
                  /\ merged.origin = Min(union)
                  /\ merged.liberties =
                         {e \in DOMAIN goban'.board :
                             /\ goban'.board[e] = NoChain
                             /\ \E s \in union : Adjacent(goban.size, e, s)}
      ]_vars

(* a stone has joined three chains of its colour *)
C16_Witness ==
    /\ ret.op = "push"
    /\ ret.number_of_neighbors_strings = 3
    /\ goban.chains[ret.id].num_stones = 4
    /\ Cardinality({c \in DOMAIN goban.chains : ~goban.chains[c].used}) = 3

(* C17: on an empty board, the push of one stone of either colour on any   *)
(* cell followed by remove_chain of the id the push returned leaves every  *)
(* cell of the board map empty and the hash 0.                             *)
C17_PushThenRemoveChain ==
    [][(/\ ops = 1
        /\ ret.op = "push"
        /\ ret'.op = "remove_chain"
        /\ ret'.id = ret.id)
       =>
           /\ \A i \in DOMAIN goban'.board : goban'.board[i] = NoChain
           /\ goban'.zobrist_hash = 0
      ]_vars

(* the one stone of the board has been taken off by remove_chain *)
C17_Witness ==
    /\ ops = 2
    /\ ret.op = "remove_chain"
    /\ \E i \in DOMAIN goban.board : placed[i] = White
    /\ Occupied(goban) = {}

(* the stones of a goban: coordinate and colour *)
StoneSet(g) ==
    {<<one_to_2dim(g.size, i), g.chains[g.board[i]].color>> : i \in Occupied(g)}

(* C18: from_array(g.to_vec()) has the stones, the size and the hash of g. *)
C18_ArrayRoundTrip ==
    LET round_trip == from_array(to_vec(goban))
    IN  /\ StoneSet(round_trip) = StoneSet(goban)
        /\ round_trip.size = goban.size
        /\ round_trip.zobrist_hash = goban.zobrist_hash

(* every set of illegal-rule flags *)
IllegalRules == SUBSET {KO, SUICIDE, FILLEYE, SUPERKO}

(* check_point_by answers PointNotEmpty for every occupied point of the    *)
(* goban of the game, whatever the flags                                   *)
OccupiedIsPointNotEmpty(gm, g) ==
    \A point \in Coords(g.size), illegal_rules \in IllegalRules :
        ~is_empty(g, point) =>
            check_point_by(gm, g, point, illegal_rules) = "PointNotEmpty"

(* C20, as claimed: for every set of flags check_point_by returns          *)
(* PointNotEmpty for an occupied point, and try_play of a placement on an  *)
(* occupied point returns Err(PointNotEmpty) and places no stone.          *)
C20_PointNotEmptyFirst ==
    [][/\ OccupiedIsPointNotEmpty(game', goban')
       /\ (ret'.op = "try_play" /\ ~is_empty(goban, ret'.point)) =>
              (ret'.result = "PointNotEmpty" /\ goban' = goban)
      ]_vars

(* C20, amended: for every set of flags check_point_by returns             *)
(* PointNotEmpty for an occupied point; try_play of a placement on an      *)
(* occupied point returns Err(GamePaused) after two passes in a row and    *)
(* Err(PointNotEmpty) otherwise, and leaves the goban and the game as they *)
(* were.                                                                   *)
C20_PointNotEmptyUnlessPaused ==
    [][/\ OccupiedIsPointNotEmpty(game', goban')
       /\ (ret'.op = "try_play" /\ ~is_empty(goban, ret'.point)) =>
              /\ ret'.result = IF game.passes = 2 THEN "GamePaused"
                               ELSE "PointNotEmpty"
              /\ goban' = goban
              /\ game' = game
      ]_vars

(* try_play on an occupied point was refused in a game without any flag *)
C20_Witness ==
    /\ ret.op = "try_play"
    /\ ret.result = "PointNotEmpty"
    /\ game.flag_illegal = {}
    /\ ~is_empty(goban, ret.point)

(* try_play on an occupied point was refused because the game is paused *)
C20_WitnessPaused ==
    /\ ret.op = "try_play"
    /\ ret.result = "GamePaused"
    /\ ~is_empty(goban, ret.point)

(* C19: play_for_verification leaves the goban of the game (board map,     *)
(* chain pool, next_stone, hash) and its prisoners, ko_point, hashes, turn *)
(* and passes as they were.                                                *)
C19_VerificationLeavesGame ==
    [][ret'.op = "play_for_verification" =>
          /\ goban'.board = goban.board
          /\ goban'.chains = goban.chains
          /\ goban'.next_stone = goban.next_stone
          /\ goban'.zobrist_hash = goban.zobrist_hash
          /\ game'.prisoners = game.prisoners
          /\ game'.ko_point = game.ko_point
          /\ game'.hashes = game.hashes
          /\ game'.turn = game.turn
          /\ game'.passes = game.passes
      ]_vars

(* play_for_verification was asked about a move that captures, with a ko   *)
(* point in force, and returned the hash of another position               *)
C19_Witness ==
    /\ ret.op = "play_for_verification"
    /\ Captures(ret.point)
    /\ game.ko_point # NoCoord
    /\ ret.id # goban.zobrist_hash
    /\ ret.id = play_Play(game, goban, ret.point).g.zobrist_hash

(* The moves try_play can be given on the board of the game. *)
TryResults(gm, g) ==
    {try_play_Play(gm, g, point).result : point \in Coords(g.size)}
        \cup {try_play_Pass(gm).result}
        \cup {try_play_Resign(gm, player).result : player \in Colors}

(* C21: the pass counter counts the passes accepted since the last         *)
(* placement or resume (a pass adds one, an accepted placement sets it to  *)
(* 0); once it has reached two, is_over() is true and try_play returns      *)
(* GamePaused for every Play, Pass and Resign, and only resume() takes the  *)
(* game out of that state.                                                  *)
C21_TwoPassesPauseUntilResume ==
    [][/\ (ret'.op = "try_pass" /\ ret'.result = "Ok")
            => game'.passes = game.passes + 1
       /\ (ret'.op = "try_play" /\ ret'.result = "Ok") => game'.passes = 0
       /\ game'.passes = 2
            => /\ is_over(game')
               /\ TryResults(game', goban') = {"GamePaused"}
       /\ (game.passes = 2 /\ game'.passes # 2) => ret'.op = "resume"]_vars

(* two passes were made, a try_play was refused and resume was called *)
C21_Witness ==
    /\ ret.op = "resume"
    /\ game.passes = 0
    /\ ops = 4
    /\ game.turn = Black
    /\ game.outcome = NoOutcome

(* The coordinates of the cells in S, in row-major order. *)
RowMajor(size, S) ==
    SelectSeq([k \in 1..(size[1] * size[2]) |-> one_to_2dim(size, k - 1)],
              LAMBDA p : p \in S)

(* C22: for Black, White and Empty, get_coords_by_color yields the         *)
(* coordinates of the board whose get_color is that colour, each once, in  *)
(* row-major order; for Empty they are the coordinates get_empty_coords     *)
(* yields.                                                                  *)
C22_CoordsByColor ==
    \A c \in Colors \cup {"Empty"} :
        \A out \in get_coords_by_color(goban, c) :
            /\ ~out.panic
            /\ out.coords = RowMajor(goban.size,
                                     {p \in Coords(goban.size) :
                                          get_color(goban, p) = c})
            /\ c = "Empty" => out.coords = get_empty_coords(goban)

(* C22 for the two colours of stones only *)
C22_CoordsOfStones ==
    \A c \in Colors :
        \A out \in get_coords_by_color(goban, c) :
            /\ ~out.panic
            /\ out.coords = RowMajor(goban.size,
                                     {p \in Coords(goban.size) :
                                          get_color(goban, p) = c})

(* C23: get_stones yields the occupied cells of the board, each once and   *)
(* with the colour of its chain, in increasing row-major order whatever the *)
(* order of the pushes; number_of_stones is the number of black and of      *)
(* white stones of that sequence.                                           *)
C23_StonesInRowMajorOrder ==
    LET stones == get_stones(goban)
    IN  /\ [k \in 1..Len(stones) |-> stones[k].coord]
               = RowMajor(goban.size,
                          {one_to_2dim(goban.size, i) : i \in Occupied(goban)})
        /\ \A k \in 1..Len(stones) :
               /\ stones[k].color = get_color(goban, stones[k].coord)
               /\ stones[k].color = placed[two_to_1dim(goban.size, stones[k].coord)]
        /\ number_of_stones(goban)
               = <<Cardinality({k \in 1..Len(stones) : stones[k].color = Black}),
                   Cardinality({k \in 1..Len(stones) : stones[k].color = White})>>

(* stones of both colours, the one first in row-major order pushed last *)
C23_Witness ==
    /\ ret.op = "push"
    /\ Len(get_stones(goban)) >= 3
    /\ get_stones(goban)[1].coord = ret.point
    /\ number_of_stones(goban)[1] >= 1
    /\ number_of_stones(goban)[2] >= 1

(* C24: the chain pool, used and retired slots together, never has more    *)
(* than MAX_CHAINS slots.                                                   *)
C24_PoolWithinMaxChains == NumChains(goban) <= MAX_CHAINS

(* the points of the board next to point *)
CrossOf(g, point) ==
    {n \in Coords(g.size) : Abs(n[1] - point[1]) + Abs(n[2] - point[2]) = 1}

(* every point of the board next to point holds a stone of the colour *)
CrossIs(g, point, color) == \A n \in CrossOf(g, point) : get_color(g, n) = color

(* the allied stones on the diagonal corners of point plus its diagonal    *)
(* corners off the board                                                   *)
Tally(g, point, color) ==
    Cardinality({d \in {-1, 1} \X {-1, 1} :
                    LET p == <<point[1] + d[1], point[2] + d[2]>>
                    IN  p \in Coords(g.size) => get_color(g, p) = color})

(* the empty diagonal corners of point on the board, as corner_points      *)
(* orders them                                                             *)
EmptyCornersOf(g, point) ==
    SelectSeq(corner_points(point),
              LAMBDA p : p \in Coords(g.size) /\ get_color(g, p) = "Empty")

(* a stone of the other colour is next to point *)
EnemyNextTo(g, point, color) ==
    \E n \in CrossOf(g, point) : get_color(g, n) = Opposite(color)

(* what C25 says check_eye returns *)
EyeAsStated(g, point, color) ==
    LET t == Tally(g, point, color)
        corners == EmptyCornersOf(g, point)
    IN  /\ get_color(g, point) = "Empty"
        /\ CrossIs(g, point, color)
        /\ \/ t = 4
           \/ /\ t \in {2, 3}
              /\ \E k \in 1..Len(corners) :
                     /\ CrossIs(g, corners[k], color)
                     /\ Tally(g, corners[k], color) >= 2

(* the same with the corners taken in turn: the first empty corner that    *)
(* has a stone of the other colour next to it or a tally of at least 2     *)
(* decides, and it qualifies when no such stone is next to it              *)
EyeByFirstDecidingCorner(g, point, color) ==
    LET t == Tally(g, point, color)
        corners == EmptyCornersOf(g, point)
    IN  /\ get_color(g, point) = "Empty"
        /\ CrossIs(g, point, color)
        /\ \/ t = 4
           \/ /\ t \in {2, 3}
              /\ \E k \in 1..Len(corners) :
                     /\ ~EnemyNextTo(g, corners[k], color)
                     /\ Tally(g, corners[k], color) >= 2
                     /\ \A j \in 1..(k - 1) :
                            /\ ~EnemyNextTo(g, corners[j], color)
                            /\ Tally(g, corners[j], color) < 2

(* C25 as stated: check_eye is true exactly when the point is empty, its   *)
(* cross is of the stone's colour, and the tally is 4, or is 2 or 3 with    *)
(* some empty diagonal corner whose own cross is all of that colour and     *)
(* whose tally is at least 2.                                               *)
C25_EyeIffSomeCornerQualifies ==
    \A point \in Coords(goban.size), color \in Colors :
        check_eye(goban, [coord |-> point, color |-> color])
            <=> EyeAsStated(goban, point, color)

(* C25: check_eye is true exactly when the point is empty, its cross is of *)
(* the stone's colour, and the tally is 4, or is 2 or 3 and the first empty *)
(* diagonal corner that has a stone of the other colour next to it or a     *)
(* tally of at least 2 is one with no stone of the other colour next to it. *)
C25_EyeIffFirstDecidingCornerQualifies ==
    \A point \in Coords(goban.size), color \in Colors :
        check_eye(goban, [coord |-> point, color |-> color])
            <=> EyeByFirstDecidingCorner(goban, point, color)

(* not an eye though a later empty corner qualifies: the first empty       *)
(* corner has a stone of the other colour next to it                       *)
C25_Witness ==
    \E point \in Coords(goban.size), color \in Colors :
        /\ ~check_eye(goban, [coord |-> point, color |-> color])
        /\ get_color(goban, point) = "Empty"
        /\ CrossIs(goban, point, color)
        /\ Tally(goban, point, color) \in {2, 3}
        /\ Len(EmptyCornersOf(goban, point)) >= 2
        /\ EnemyNextTo(goban, EmptyCornersOf(goban, point)[1], color)
        /\ ~EnemyNextTo(goban, EmptyCornersOf(goban, point)[2], color)
        /\ Tally(goban, EmptyCornersOf(goban, point)[2], color) >= 2

(* an eye by the second empty corner: the first has no stone of the other  *)
(* colour next to it and a tally below 2                                    *)
C25_WitnessSecondCorner ==
    \E point \in Coords(goban.size), color \in Colors :
        /\ check_eye(goban, [coord |-> point, color |-> color])
        /\ Tally(goban, point, color) \in {2, 3}
        /\ Len(EmptyCornersOf(goban, point)) >= 2
        /\ Tally(goban, EmptyCornersOf(goban, point)[1], color) < 2

(* C26: on an empty point will_capture is true exactly when the push of a  *)
(* stone of the player to move there returns a non-empty list of dead      *)
(* chains.                                                                  *)
C26_WillCaptureIffPushKills ==
    \A point \in EmptyPoints(goban) :
        will_capture(game, goban, point) <=> Captures(point)

(* a point where the player to move captures, next to a chain of his own   *)
(* that is in atari as well                                                 *)
C26_Witness ==
    \E point \in EmptyPoints(goban) :
        /\ will_capture(game, goban, point)
        /\ Captures(point)
        /\ \E c \in ChainsNextTo(goban, point) :
               /\ goban.chains[c].color = game.turn
               /\ is_atari(goban.chains[c])

(* C27: on the 19x19 goban get_coords_by_color and pseudo_legals_vec       *)
(* compute height * width without overflow and cover the cells of linear    *)
(* index 0..360: together the coordinates of the three colours are all the  *)
(* 361 cells, and pseudo_legals_vec yields every empty cell.                *)
C27_AllCellsOf19x19 ==
    goban.size = BOARD_MAX_SIZE =>
        /\ \A c \in Colors \cup {"Empty"} :
               \A out \in get_coords_by_color(goban, c) :
                   /\ ~out.panic
                   /\ \A p \in Coords(goban.size) :
                          get_color(goban, p) = c => Contains(out.coords, p)
        /\ \A out \in pseudo_legals_vec(goban) :
               /\ ~out.panic
               /\ out.coords = get_empty_coords(goban)

(* C28: in a game played through try_play every used chain has a liberty   *)
(* once a move is made, whether the SUICIDE flag forbids the moves that     *)
(* kill their own chain or capture resolution is to remove that chain.      *)
C28_EveryChainHasLiberty ==
    \A c \in UsedChains(goban) : number_of_liberties(goban.chains[c]) >= 1

(* C28 for the games whose rule has the SUICIDE flag *)
C28_EveryChainHasLibertyUnderSuicideFlag ==
    SUICIDE \in game.flag_illegal => C28_EveryChainHasLiberty

(* the chain has no liberty and its stones are on the board with no empty *)
(* point next to any of them                                              *)
StaysWithoutLiberty(g, c) ==
    /\ g.chains[c].used
    /\ g.chains[c].liberties = {}
    /\ StonesOf(g, c) # {}
    /\ \A s \in StonesOf(g, c) : get_liberties(g, one_to_2dim(g.size, s)) = <<>>

(* C29: a push empties no cell and changes no stone: the occupied cells     *)
(* after it are those before it, with their colours, and the cell pushed    *)
(* on; the chains it leaves without a liberty, and those left so by earlier *)
(* pushes, stay on the board, in use, with an empty liberty set and no      *)
(* liberty at any of their stones.                                          *)
C29_PushOnlyPlaces ==
    [][ret'.op = "push" =>
          /\ Occupied(goban') = Occupied(goban) \cup {two_to_1dim(goban.size, ret'.point)}
          /\ \A i \in Occupied(goban) :
                 get_color(goban', one_to_2dim(goban.size, i))
                     = get_color(goban, one_to_2dim(goban.size, i))
          /\ \A k \in 1..Len(ret'.dead) :
                 /\ StaysWithoutLiberty(goban', ret'.dead[k])
                 /\ StonesOf(goban', ret'.dead[k]) = StonesOf(goban, ret'.dead[k])
          /\ \A c \in UsedChains(goban) :
                 goban.chains[c].liberties = {} =>
                     /\ StaysWithoutLiberty(goban', c)
                     /\ StonesOf(goban', c) = StonesOf(goban, c)]_vars

(* a push took the last liberty of a chain of two stones while another     *)
(* chain was on the board without a liberty already                        *)
C29_Witness ==
    /\ ret.op = "push"
    /\ \E k \in 1..Len(ret.dead) : goban.chains[ret.dead[k]].num_stones >= 2
    /\ \E c \in UsedChains(goban) :
           /\ goban.chains[c].liberties = {}
           /\ \A k \in 1..Len(ret.dead) : ret.dead[k] # c

C30_WitnessOtherErrors ==
    \/ ret.op = "try_play" /\ ret.result = "Suicide" /\ ops >= 3
    \/ ret.op = "try_pass" /\ ret.result = "GamePaused"

(* the same of try_play_color: the game it leaves when it fails is the     *)
(* game before the call                                                    *)
C30_TryPlayColorErrorLeavesGame ==
    \A color \in Colors, point \in Coords(goban.size) :
        LET r == try_play_color_Play(game, goban, color, point)
        IN  r.result # "Ok" => (r.g = goban /\ r.game = game)

(* the stones on the board and the prisoners taken *)
StonesAndPrisoners(g, gm) ==
    number_of_stones(g)[1] + number_of_stones(g)[2]
        + gm.prisoners[1] + gm.prisoners[2]

(* C31: in a game started by Game::new the stones on the board plus the    *)
(* prisoners of both sides are as many as the placements played: none at    *)
(* the start, one more after each Move::Play on an empty point, the same    *)
(* after a pass or a resignation; and no prisoner count ever goes down.     *)
C31_StonesPlusPrisonersCountPlays ==
    [][/\ ops = 0 => StonesAndPrisoners(goban, game) = 0
       /\ ret'.op = "play"
            => StonesAndPrisoners(goban', game') = StonesAndPrisoners(goban, game) + 1
       /\ ret'.op # "play"
            => StonesAndPrisoners(goban', game') = StonesAndPrisoners(goban, game)
       /\ game'.prisoners[1] >= game.prisoners[1]
       /\ game'.prisoners[2] >= game.prisoners[2]]_vars

(* both sides have taken stones and a chain of two stones was taken *)
C31_Witness ==
    /\ ret.op = "play"
    /\ game.prisoners[1] >= 1
    /\ game.prisoners[2] >= 1
    /\ game.prisoners[1] + game.prisoners[2] >= 3
    /\ number_of_stones(goban)[1] + number_of_stones(goban)[2] >= 1

(* The long game that Black begins on (0,0) is, after n >= 3 placements,   *)
(* in the state LongState(n).                                               *)
LongGameIsLongState ==
    (ops >= 3 /\ goban.chains[0].origin = 0) =>
        LET s == LongState(ops)
        IN  /\ goban = s.goban
            /\ game = s.game
            /\ ret = s.ret
            /\ placed = s.placed

(* C32: the id stored in the board map at a stone is the index, in the    *)
(* pool, of the chain the stone is in, also once the pool has more than     *)
(* 2^16 slots: the cell of the stone just played holds the index of the     *)
(* chain the placement returned, and every occupied cell holds the index of *)
(* a chain in use whose cycle of stones passes through the cell.            *)
C32_StoredIdIsPoolIndex ==
    /\ ret.op = "play" =>
           goban.board[two_to_1dim(goban.size, ret.point)] = ret.id
    /\ \A i \in Occupied(goban) :
           /\ goban.chains[goban.board[i]].used
           /\ Contains(iter_stones(goban, goban.board[i]), i)

====
